---- MODULE Spec2Model ----
(***************************************************************************)
(* source-snap: the directory walker collectFiles, its filters, and the    *)
(* sourceSnap driver (ignore rules, statistics, output writing).           *)
(*                                                                         *)
(* Strings of the program are sequences of one-character strings, so that  *)
(* path.extname, toLowerCase, split, join, minimatch and the ignore rules  *)
(* are computed character by character as the code computes them.          *)
(* A relative path is the sequence of its segments (posix separators).     *)
(***************************************************************************)
EXTENDS Integers, Sequences, FiniteSets, TLC

(***************************************************************************)
(* String helpers (JavaScript String / node path semantics)                *)
(***************************************************************************)

Upper == <<"A","B","C","D","E","F","G","H","I","J","K","L","M",
           "N","O","P","Q","R","S","T","U","V","W","X","Y","Z">>

LowerLetters == <<"a","b","c","d","e","f","g","h","i","j","k","l","m",
                  "n","o","p","q","r","s","t","u","v","w","x","y","z">>

\* String.prototype.toLowerCase on one character
LowerChar(c) ==
    IF \E i \in DOMAIN Upper : Upper[i] = c
    THEN LowerLetters[CHOOSE i \in DOMAIN Upper : Upper[i] = c]
    ELSE c

\* String.prototype.toLowerCase
ToLowerCase(s) == [i \in DOMAIN s |-> LowerChar(s[i])]

Front(s) == SubSeq(s, 1, Len(s) - 1)

Last(s) == s[Len(s)]

\* Array.prototype.includes
Includes(list, x) == \E i \in DOMAIN list : list[i] = x

\* position of the last occurrence of c in s, 0 when there is none
LastIndexOf(s, c) ==
    IF \E i \in DOMAIN s : s[i] = c
    THEN CHOOSE i \in DOMAIN s : s[i] = c /\ \A j \in DOMAIN s : s[j] = c => j <= i
    ELSE 0

\* position of the first occurrence of c in s, 0 when there is none
IndexOf(s, c) ==
    IF \E i \in DOMAIN s : s[i] = c
    THEN CHOOSE i \in DOMAIN s : s[i] = c /\ \A j \in DOMAIN s : s[j] = c => j >= i
    ELSE 0

\* path.extname of a base name: from the last dot to the end; empty when
\* there is no dot or the only dot is the first character
ExtName(name) ==
    LET d == LastIndexOf(name, ".")
    IN  IF d <= 1 THEN <<>> ELSE SubSeq(name, d, Len(name))

\* String.prototype.split(sep) for a one-character separator
RECURSIVE Split(_, _)
Split(s, sep) ==
    LET i == IndexOf(s, sep)
    IN  IF i = 0 THEN <<s>>
        ELSE <<SubSeq(s, 1, i - 1)>> \o Split(SubSeq(s, i + 1, Len(s)), sep)

\* Array.prototype.join(sep)
RECURSIVE JoinWith(_, _)
JoinWith(parts, sep) ==
    IF parts = <<>> THEN <<>>
    ELSE IF Len(parts) = 1 THEN parts[1]
    ELSE parts[1] \o sep \o JoinWith(Tail(parts), sep)

\* String.prototype.trim (blanks and carriage returns)
RECURSIVE Trim(_)
Trim(s) ==
    IF s = <<>> THEN s
    ELSE IF Head(s) \in {" ", "\r", "\t"} THEN Trim(Tail(s))
    ELSE IF Last(s) \in {" ", "\r", "\t"} THEN Trim(Front(s))
    ELSE s

\* Array.prototype.flat on a list of lists
RECURSIVE Flat(_)
Flat(lists) ==
    IF lists = <<>> THEN <<>> ELSE Head(lists) \o Flat(Tail(lists))

(***************************************************************************)
(* minimatch(relativePath, pattern) with default options, for patterns     *)
(* over literal characters, "?", "*" and "**" (no braces, classes,         *)
(* negation or comments).                                                  *)
(***************************************************************************)

\* one path segment against one pattern segment: "*" is any run of
\* characters, "?" is one character
RECURSIVE WildMatch(_, _)
WildMatch(p, s) ==
    IF p = <<>> THEN s = <<>>
    ELSE IF Head(p) = "*"
         THEN WildMatch(Tail(p), s) \/ (s # <<>> /\ WildMatch(p, Tail(s)))
         ELSE /\ s # <<>>
              /\ (Head(p) = "?" \/ Head(p) = Head(s))
              /\ WildMatch(Tail(p), Tail(s))

\* a name starting with a dot (minimatch option dot is off)
DotName(name) == name # <<>> /\ Head(name) = "."

\* a dot file is matched only by a pattern segment that starts with a dot
SegMatch(pseg, name) ==
    /\ DotName(name) => DotName(pseg)
    /\ WildMatch(pseg, name)

GlobStar == <<"*", "*">>

\* minimatch's matchOne over path segments and pattern segments
RECURSIVE MatchOne(_, _)
MatchOne(file, pat) ==
    IF pat = <<>> THEN file = <<>>
    ELSE IF Head(pat) = GlobStar
         THEN IF Len(pat) = 1
              THEN \A i \in DOMAIN file : ~DotName(file[i])
              ELSE \E k \in 0..(Len(file) - 1) :
                      /\ \A i \in 1..k : ~DotName(file[i])
                      /\ MatchOne(SubSeq(file, k + 1, Len(file)), Tail(pat))
         ELSE /\ file # <<>>
              /\ SegMatch(Head(pat), Head(file))
              /\ MatchOne(Tail(file), Tail(pat))

\* minimatch(path, pattern): the empty pattern matches only the empty path
Minimatch(segs, pattern) ==
    IF pattern = <<>> THEN segs = <<>>
    ELSE MatchOne(segs, Split(pattern, "/"))

(***************************************************************************)
(* The ignore package: ignore().add(content) and ig.ignores(path), for     *)
(* patterns without an inner or leading slash: "name", "name/", "*.ext",   *)
(* optionally negated with "!".                                            *)
(***************************************************************************)

\* a line that is no pattern: blank, or a comment
NotAPattern(line) == Trim(line) = <<>> \/ Head(line) = "#"

\* one line of the ignore file as a rule
MakeRule(line) ==
    LET t    == Trim(line)
        neg  == Head(t) = "!"
        body == IF neg THEN Tail(t) ELSE t
        dir  == body # <<>> /\ Last(body) = "/"
    IN  [negative |-> neg, dirOnly |-> dir,
         glob |-> IF dir THEN Front(body) ELSE body]

\* ignore().add(content): the rules of the file, in file order
RECURSIVE RulesOf(_)
RulesOf(lines) ==
    IF lines = <<>> THEN <<>>
    ELSE IF NotAPattern(Head(lines)) THEN RulesOf(Tail(lines))
    ELSE <<MakeRule(Head(lines))>> \o RulesOf(Tail(lines))

IgnoreAdd(content) == RulesOf(Split(content, "\n"))

\* a rule against a path: the pattern is matched against the last segment;
\* a pattern ending in "/" matches only a path given with a trailing slash
RuleMatches(rule, segs, asDir) ==
    /\ rule.dirOnly => asDir
    /\ WildMatch(rule.glob, Last(segs))

\* _testOne: the rules in order, the last matching rule wins
RECURSIVE TestOne(_, _, _, _)
TestOne(rules, segs, asDir, ignored) ==
    IF rules = <<>> THEN ignored
    ELSE TestOne(Tail(rules), segs, asDir,
                 IF RuleMatches(Head(rules), segs, asDir)
                 THEN ~Head(rules).negative
                 ELSE ignored)

\* _t: a path under an ignored directory is ignored; parents are tested as
\* directories (with a trailing slash)
RECURSIVE TestPath(_, _, _)
TestPath(rules, segs, asDir) ==
    IF Len(segs) <= 1 THEN TestOne(rules, segs, asDir, FALSE)
    ELSE IF TestPath(rules, Front(segs), TRUE) THEN TRUE
    ELSE TestOne(rules, segs, asDir, FALSE)

\* ig.ignores(relativePath): the path is given without a trailing slash
Ignores(rules, segs) == TestPath(rules, segs, FALSE)

(***************************************************************************)
(* The file system: a tree is a function from a path (the sequence of its  *)
(* segments, <<>> for options.folderPath) to a node.  A directory lists    *)
(* its entries in enumeration order; a file has the size fs.stat reports   *)
(* and the text fs.readFile returns; a symbolic link has a target path.    *)
(***************************************************************************)

Dir(entries) ==
    [kind |-> "dir", entries |-> entries, size |-> 0, content |-> <<>>, target |-> <<>>]

File(size, content) ==
    [kind |-> "file", entries |-> <<>>, size |-> size, content |-> content, target |-> <<>>]

Link(target) ==
    [kind |-> "symlink", entries |-> <<>>, size |-> 0, content |-> <<>>, target |-> target]

Missing ==
    [kind |-> "missing", entries |-> <<>>, size |-> 0, content |-> <<>>, target |-> <<>>]

\* a node on which one operation fails (EACCES and the like): "readdir" on
\* a directory, "stat" or "read" on a file
Failing(node, op) == [fault |-> op] @@ node

\* the operation that fails on a node, "none" on most
FaultOf(node) == IF "fault" \in DOMAIN node THEN node.fault ELSE "none"

\* the node a path names when every symbolic link on it is followed, as
\* fs.readdir, fs.stat and fs.readFile do
RECURSIVE Resolve(_, _)
Resolve(t, p) ==
    IF p = <<>> THEN <<>>
    ELSE LET q == Append(Resolve(t, Front(p)), Last(p))
         IN  IF q \in DOMAIN t /\ t[q].kind = "symlink"
             THEN Resolve(t, t[q].target)
             ELSE q

NodeAt(t, p) ==
    LET q == Resolve(t, p)
    IN  IF q \in DOMAIN t THEN t[q] ELSE Missing

\* Dirent as it would be if the entry's type were taken by following links
DirentFollowingLinks(t, p, name) ==
    LET q == Resolve(t, Append(p, name))
    IN  IF q \in DOMAIN t THEN t[q] ELSE Missing

\* the Dirent of entry name in directory p: the entry's own type, a link
\* is not followed
Dirent(t, p, name) ==
    LET q == Append(Resolve(t, p), name)
    IN  IF q \in DOMAIN t THEN t[q] ELSE Missing

(***************************************************************************)
(* Options                                                                 *)
(***************************************************************************)

\* maxDepth: Infinity, a depth no walk of a finite tree reaches
Infinity == 1000

\* a size in MB as a fraction, so that 0.001 is exact
MB(num, den) == [num |-> num, den |-> den]

defaultOptions ==
    [fileTypes        |-> <<<<".","j","s">>, <<".","t","s">>>>,
     maxSizeMB        |-> MB(10, 1),
     maxDepth         |-> Infinity,
     outputFormat     |-> "txt",
     excludeFolders   |-> <<<<"d","i","s","t">>, <<"n","o","d","e","_","m","o","d","u","l","e","s">>>>,
     excludeFiles     |-> <<<<"b","u","n",".","l","o","c","k","b">>, <<"p","a","c","k","a","g","e","-","l","o","c","k",".","j","s","o","n">>, <<"y","a","r","n",".","l","o","c","k">>, <<"p","n","p","m","-","l","o","c","k",".","y","a","m","l">>, <<".","p","r","e","t","t","i","e","r","i","g","n","o","r","e">>>>,
     respectGitignore |-> TRUE,
     includePatterns  |-> <<>>,
     excludePatterns  |-> <<>>]

\* options.folderPath: the directory the runs are started on, /h/dist/w
FolderPath == <<<<"h">>, <<"d","i","s","t">>, <<"w">>>>

\* path.join(folderPath, entry.name) for entry name of the directory at
\* relative path p, as a string
FullPath(p, name) ==
    <<"/">> \o JoinWith(FolderPath \o p \o <<name>>, <<"/">>)

\* String.prototype.includes
StringIncludes(str, sub) ==
    \E i \in 1..(Len(str) - Len(sub) + 1) : SubSeq(str, i, i + Len(sub) - 1) = sub

(***************************************************************************)
(* collectFiles: the checks on one directory entry                         *)
(***************************************************************************)

\* Dirent.isSymbolicLink(), isDirectory(), isFile()
IsSymbolicLink(d) == d.kind = "symlink"

IsDirectory(d) == d.kind = "dir"

IsFile(d) == d.kind = "file"

\* options.respectGitignore && ig.ignores(relativePath)
IgnoredPath(cfg, rules, rel) == cfg.respectGitignore /\ Ignores(rules, rel)

\* ExcludedFolder as it would be if only the first entry were compared
ExcludedFolderFirstOnly(cfg, name) ==
    cfg.excludeFolders # <<>> /\ cfg.excludeFolders[1] = name

\* options.excludeFolders.includes(entry.name)
ExcludedFolder(cfg, name) == Includes(cfg.excludeFolders, name)

\* options.excludeFiles.some(pattern => minimatch(relativePath, pattern))
ExcludedFile(cfg, rel) ==
    \E i \in DOMAIN cfg.excludeFiles : Minimatch(rel, cfg.excludeFiles[i])

\* includePatterns is non-empty and no pattern matches
NotIncluded(cfg, rel) ==
    /\ Len(cfg.includePatterns) > 0
    /\ ~\E i \in DOMAIN cfg.includePatterns : Minimatch(rel, cfg.includePatterns[i])

\* options.excludePatterns.some(pattern => minimatch(relativePath, pattern))
ExcludedByPattern(cfg, rel) ==
    \E i \in DOMAIN cfg.excludePatterns : Minimatch(rel, cfg.excludePatterns[i])

\* FileExtension as it would be without toLowerCase
FileExtensionAsSpelled(name) == ExtName(name)

\* path.extname(entry.name).toLowerCase()
FileExtension(name) == ToLowerCase(ExtName(name))

\* fileTypes is non-empty and does not include the extension
WrongType(cfg, name) ==
    /\ Len(cfg.fileTypes) > 0
    /\ ~Includes(cfg.fileTypes, FileExtension(name))

\* EntryClass as it would be without the excludePatterns check
EntryClassNoExcludePatterns(cfg, rules, t, p, name) ==
    LET rel == Append(p, name)
        d   == Dirent(t, p, name)
    IN  IF cfg.respectGitignore /\ Ignores(rules, rel) THEN "ignored"
        ELSE IF d.kind = "symlink" THEN "symlink"
        ELSE IF d.kind = "dir"
             THEN IF Includes(cfg.excludeFolders, name) THEN "excludedFolder" ELSE "dir"
        ELSE IF d.kind = "file"
             THEN IF \E i \in DOMAIN cfg.excludeFiles : Minimatch(rel, cfg.excludeFiles[i])
                  THEN "excludedFile"
                  ELSE IF /\ Len(cfg.includePatterns) > 0
                          /\ ~\E i \in DOMAIN cfg.includePatterns :
                                 Minimatch(rel, cfg.includePatterns[i])
                       THEN "notIncluded"
                  ELSE IF /\ Len(cfg.fileTypes) > 0
                          /\ ~Includes(cfg.fileTypes, ToLowerCase(ExtName(name)))
                       THEN "wrongType"
                  ELSE "file"
        ELSE "other"

\* what the loop body does with one entry of directory p: "dir" pushes a
\* recursive collectFiles call, "file" pushes a stat/read task, every other
\* value is a continue (or an entry of no handled type)
EntryClass(cfg, rules, t, p, name) ==
    LET rel == Append(p, name)
        d   == Dirent(t, p, name)
    IN  IF IgnoredPath(cfg, rules, rel) THEN "ignored"
        ELSE IF IsSymbolicLink(d) THEN "symlink"
        ELSE IF IsDirectory(d)
             THEN IF ExcludedFolder(cfg, name) THEN "excludedFolder" ELSE "dir"
        ELSE IF IsFile(d)
             THEN IF ExcludedFile(cfg, rel) THEN "excludedFile"
                  ELSE IF NotIncluded(cfg, rel) THEN "notIncluded"
                  ELSE IF ExcludedByPattern(cfg, rel) THEN "excludedPattern"
                  ELSE IF WrongType(cfg, name) THEN "wrongType"
                  ELSE "file"
        ELSE "other"

\* TooLarge as it would be with >= for >
TooLargeAtCeiling(cfg, size) ==
    size * cfg.maxSizeMB.den >= cfg.maxSizeMB.num * (1024 * 1024)

\* fileSizeMB > options.maxSizeMB, with fileSizeMB = size / (1024 * 1024)
TooLarge(cfg, size) ==
    size * cfg.maxSizeMB.den > cfg.maxSizeMB.num * (1024 * 1024)

(***************************************************************************)
(* The trees and configurations the runs are checked on                    *)
(***************************************************************************)

\* the ignore-file scenario: dist/out.ts and src/in.ts under a root whose
\* .gitignore holds the given text
TreeDist(gitignore) ==
    (<<>> :> Dir(<<<<".","g","i","t","i","g","n","o","r","e">>, <<"d","i","s","t">>, <<"s","r","c">>>>))
    @@ (<<<<".","g","i","t","i","g","n","o","r","e">>>> :> File(Len(gitignore), gitignore))
    @@ (<<<<"d","i","s","t">>>> :> Dir(<<<<"o","u","t",".","t","s">>>>))
    @@ (<<<<"d","i","s","t">>, <<"o","u","t",".","t","s">>>> :> File(1, <<"o">>))
    @@ (<<<<"s","r","c">>>> :> Dir(<<<<"i","n",".","t","s">>>>))
    @@ (<<<<"s","r","c">>, <<"i","n",".","t","s">>>> :> File(2, <<"i","\n">>))

\* nested directories and symbolic links: to a directory, to a file, and
\* from sub/up back to the root (a cycle)
TreeLinks ==
    (<<>> :> Dir(<<<<"a",".","t","s">>, <<"s","u","b">>, <<"l","n","k">>, <<"l","f",".","t","s">>>>))
    @@ (<<<<"a",".","t","s">>>> :> File(3, <<"a","\n","b">>))
    @@ (<<<<"s","u","b">>>> :> Dir(<<<<"b",".","M","d">>, <<"d","e","e","p">>, <<"u","p">>>>))
    @@ (<<<<"s","u","b">>, <<"b",".","M","d">>>> :> File(1, <<"b">>))
    @@ (<<<<"s","u","b">>, <<"d","e","e","p">>>> :> Dir(<<<<"c",".","j","s">>>>))
    @@ (<<<<"s","u","b">>, <<"d","e","e","p">>, <<"c",".","j","s">>>> :> File(1, <<"c">>))
    @@ (<<<<"s","u","b">>, <<"u","p">>>> :> Link(<<>>))
    @@ (<<<<"l","n","k">>>> :> Link(<<<<"s","u","b">>>>))
    @@ (<<<<"l","f",".","t","s">>>> :> Link(<<<<"a",".","t","s">>>>))

\* extensions, sizes and the default exclusions: a file without extension
\* of 1 MB + 1 byte, a file of 2000 bytes, a file of exactly 1 MB with an
\* upper-case extension, a lock file and a node_modules folder
TreeMixed ==
    (<<>> :> Dir(<<<<"L","I","C","E","N","S","E">>, <<"b","i","g",".","t","s">>, <<"x",".","T","S">>, <<"y","a","r","n",".","l","o","c","k">>, <<"n","o","d","e","_","m","o","d","u","l","e","s">>>>))
    @@ (<<<<"L","I","C","E","N","S","E">>>> :> File(1024 * 1024 + 1, <<"l">>))
    @@ (<<<<"b","i","g",".","t","s">>>> :> File(2000, <<"x","\n","y","\n">>))
    @@ (<<<<"x",".","T","S">>>> :> File(1024 * 1024, <<"t">>))
    @@ (<<<<"y","a","r","n",".","l","o","c","k">>>> :> File(1, <<"k">>))
    @@ (<<<<"n","o","d","e","_","m","o","d","u","l","e","s">>>> :> Dir(<<<<"m",".","j","s">>>>))
    @@ (<<<<"n","o","d","e","_","m","o","d","u","l","e","s">>, <<"m",".","j","s">>>> :> File(1, <<"m">>))

\* names: a file whose name holds a line feed, listed first, and a folder
\* whose name contains the excluded name dist without being it
TreeNames ==
    (<<>> :> Dir(<<<<"n","\n","l",".","t","s">>, <<"d","i","s","t","r","i","b","u","t","i","o","n">>, <<"z",".","t","s">>>>))
    @@ (<<<<"n","\n","l",".","t","s">>>> :> File(1, <<"n">>))
    @@ (<<<<"d","i","s","t","r","i","b","u","t","i","o","n">>>> :> Dir(<<<<"d",".","t","s">>>>))
    @@ (<<<<"d","i","s","t","r","i","b","u","t","i","o","n">>, <<"d",".","t","s">>>> :> File(1, <<"d">>))
    @@ (<<<<"z",".","t","s">>>> :> File(2, <<"z","\n">>))

\* one operation fails: the listing of the folder bad, or fs.stat or
\* fs.readFile of the file bad.ts; ok.ts beside it is sound
TreeFault(op) ==
    IF op = "readdir"
    THEN (<<>> :> Dir(<<<<"o","k",".","t","s">>, <<"b","a","d">>>>))
         @@ (<<<<"o","k",".","t","s">>>> :> File(1, <<"o">>))
         @@ (<<<<"b","a","d">>>> :> Failing(Dir(<<<<"c",".","t","s">>>>), op))
         @@ (<<<<"b","a","d">>, <<"c",".","t","s">>>> :> File(1, <<"c">>))
    ELSE (<<>> :> Dir(<<<<"o","k",".","t","s">>, <<"b","a","d",".","t","s">>>>))
         @@ (<<<<"o","k",".","t","s">>>> :> File(1, <<"o">>))
         @@ (<<<<"b","a","d",".","t","s">>>> :> Failing(File(1, <<"b">>), op))

\* options.folderPath does not exist
TreeMissing == <<>> :> Missing

\* options.folderPath is a regular file
TreeFileRoot == <<>> :> File(1, <<"f">>)

GitignoreTexts ==
    {<<"d","i","s","t","/">>,
     <<"d","i","s","t">>,
     <<"#"," ","x","\n","\n","*",".","t","s","\n","!","i","n",".","t","s">>}

Trees ==
    {TreeDist(g) : g \in GitignoreTexts}
        \cup {TreeFault(op) : op \in {"readdir", "stat", "read"}}
        \cup {TreeLinks, TreeMixed, TreeNames, TreeMissing, TreeFileRoot}

\* the regular files under the root of a tree
FilesOf(t) == {p \in DOMAIN t : p # <<>> /\ t[p].kind = "file"}

\* a set as a list, in some fixed order
RECURSIVE SetToSeq(_)
SetToSeq(set) ==
    IF set = {} THEN <<>>
    ELSE LET x == CHOOSE y \in set : TRUE
         IN  <<x>> \o SetToSeq(set \ {x})

\* the extensions present in a tree, as spelled and lower-cased
RawExts(t) == SetToSeq({ExtName(Last(p)) : p \in FilesOf(t)})

LowerExts(t) == SetToSeq({ToLowerCase(ExtName(Last(p))) : p \in FilesOf(t)})

\* getUserInput: the list an answer of comma separated items becomes,
\* answer.split(',').map(item => item.trim())
AnswerList(answer) ==
    LET parts == Split(answer, ",")
    IN  [i \in DOMAIN parts |-> Trim(parts[i])]

\* the largest maxDepth tried besides Infinity
MaxDepthChoice == 1

\* a configuration differs from defaultOptions in at most this many options
MaxDeviations == 2

\* the values tried for each option besides its default
Alternatives(t) ==
    [fileTypes        |-> <<<<>>, RawExts(t), LowerExts(t)>>,
     maxSizeMB        |-> <<MB(1, 1000), MB(1, 1)>>,
     maxDepth         |-> [i \in 1..(MaxDepthChoice + 1) |-> i - 1],
     outputFormat     |-> <<"json">>,
     excludeFolders   |-> <<<<>>>>,
     excludeFiles     |-> <<<<>>>>,
     respectGitignore |-> <<FALSE>>,
     includePatterns  |-> <<AnswerList(<<"*",".","t","s",","," ","s","u","b","/","*">>),
                            AnswerList(<<>>)>>,
     excludePatterns  |-> <<<<<<"*","*","/","i","n",".","t","s">>>>>>]

OptionNames == DOMAIN defaultOptions

MostAlternatives(t) ==
    CHOOSE n \in 1..20 :
        /\ \A f \in OptionNames : Len(Alternatives(t)[f]) <= n
        /\ \E f \in OptionNames : Len(Alternatives(t)[f]) = n

\* defaultOptions with the options in D replaced as pick says
Deviate(t, D, pick) ==
    [f \in OptionNames |->
        IF f \in D THEN Alternatives(t)[f][pick[f]] ELSE defaultOptions[f]]

Configs(t) ==
    UNION { { Deviate(t, D, pick) :
                pick \in { c \in [D -> 1..MostAlternatives(t)] :
                             \A f \in D : c[f] <= Len(Alternatives(t)[f]) } } :
            D \in { X \in SUBSET OptionNames : Cardinality(X) <= MaxDeviations } }

(***************************************************************************)
(* Statistics and output                                                   *)
(***************************************************************************)

\* a relative path as the string the program holds
PathString(segs) == JoinWith(segs, <<"/">>)

\* the part of a path string after its last separator
Basename(str) == SubSeq(str, LastIndexOf(str, "/") + 1, Len(str))

NoStats == [totalFiles |-> 0, totalLines |-> 0, fileTypeStats |-> <<>>]

\* AddFile as it would be with the bucket key not lower-cased
AddFileKeyAsSpelled(st, file) ==
    LET lines == Len(Split(file.content, "\n"))
        ext   == ExtName(Basename(PathString(file.path)))
        fts   == st.fileTypeStats
        old   == IF ext \in DOMAIN fts THEN fts[ext] ELSE [files |-> 0, lines |-> 0]
        new   == [files |-> old.files + 1, lines |-> old.lines + lines]
    IN  [totalFiles    |-> st.totalFiles + 1,
         totalLines    |-> st.totalLines + lines,
         fileTypeStats |-> [e \in DOMAIN fts \cup {ext} |->
                               IF e = ext THEN new ELSE fts[e]]]

\* the body of result.forEach in sourceSnap
AddFile(st, file) ==
    LET lines == Len(Split(file.content, "\n"))
        ext   == ToLowerCase(ExtName(Basename(PathString(file.path))))
        fts   == st.fileTypeStats
        old   == IF ext \in DOMAIN fts THEN fts[ext] ELSE [files |-> 0, lines |-> 0]
        new   == [files |-> old.files + 1, lines |-> old.lines + lines]
    IN  [totalFiles    |-> st.totalFiles + 1,
         totalLines    |-> st.totalLines + lines,
         fileTypeStats |-> [e \in DOMAIN fts \cup {ext} |->
                               IF e = ext THEN new ELSE fts[e]]]

RECURSIVE AggregateFrom(_, _)
AggregateFrom(st, files) ==
    IF files = <<>> THEN st
    ELSE AggregateFrom(AddFile(st, Head(files)), Tail(files))

Aggregate(files) == AggregateFrom(NoStats, files)

\* the reduce of writeOutput: the lines of the text output
RECURSIVE OutputLinesFrom(_, _)
OutputLinesFrom(acc, files) ==
    IF files = <<>> THEN acc
    ELSE OutputLinesFrom(
            acc \o <<<<"/", "/", " ">> \o PathString(Head(files).path)>>
                \o Split(Head(files).content, "\n") \o <<<<>>>>,
            Tail(files))

OutputLines(files) == OutputLinesFrom(<<>>, files)

\* the reduce of writeOutput: one link entry per file, with the line its
\* header gets
RECURSIVE FileLineMapFrom(_, _, _)
FileLineMapFrom(acc, map, files) ==
    IF files = <<>> THEN map
    ELSE FileLineMapFrom(
            OutputLinesFrom(acc, <<Head(files)>>),
            Append(map, [path |-> Head(files).path, line |-> Len(acc) + 1]),
            Tail(files))

FileLineMap(cfg, files) ==
    IF cfg.outputFormat = "txt" THEN FileLineMapFrom(<<>>, <<>>, files) ELSE <<>>

\* what fs.writeFile is given
OutputFile(cfg, files) ==
    IF cfg.outputFormat = "txt"
    THEN [written |-> TRUE, format |-> "txt",
          text |-> JoinWith(OutputLines(files), <<"\n">>), records |-> <<>>]
    ELSE [written |-> TRUE, format |-> "json", text |-> <<>>, records |-> files]

NoFile == [written |-> FALSE, format |-> "none", text |-> <<>>, records |-> <<>>]

(***************************************************************************)
(* The program: sourceSnap run twice on one tree, each run a collectFiles  *)
(* walk whose directory calls and file tasks complete in any order.        *)
(***************************************************************************)

VARIABLES
    tree,        \* the file system under options.folderPath, unmodified
    cfgs,        \* the options of the first and of the second run
    run,         \* the run in progress, 1 or 2
    pc,          \* sourceSnap: "init", "collect", "write", "done", "failed"
    ig,          \* the rules parseGitignore returned
    tasks,       \* path -> the collectFiles call or file task started for it
    listed,      \* the paths fs.readdir has listed
    result,      \* what collectFiles returned to sourceSnap
    stats,       \* the Stats of sourceSnap
    fileLineMap, \* what writeOutput returns
    outFile,     \* the output file on disk
    prev         \* the outcome of the first run, kept for the second

vars == <<tree, cfgs, run, pc, ig, tasks, listed, result, stats,
          fileLineMap, outFile, prev>>

cfg == cfgs[run]

NoTasks == [p \in {} |-> 0]

NoPrev == [status |-> "none", result |-> <<>>]

\* the runs compared: the same options twice; when the allowlist is the
\* list of the extensions present in the tree, the second time with the
\* allowlist emptied; when includePatterns is what an empty answer gives,
\* the second time with the empty list
SecondConfigs(t, c) ==
    {c}
        \cup (IF c.fileTypes \in {RawExts(t), LowerExts(t)}
              THEN {[c EXCEPT !.fileTypes = <<>>]} ELSE {})
        \cup (IF c.includePatterns = AnswerList(<<>>)
              THEN {[c EXCEPT !.includePatterns = <<>>]} ELSE {})

Init ==
    /\ tree \in Trees
    /\ \E c \in Configs(tree) : \E c2 \in SecondConfigs(tree, c) : cfgs = <<c, c2>>
    /\ run = 1
    /\ pc = "init"
    /\ ig = <<>>
    /\ tasks = NoTasks
    /\ listed = {}
    /\ result = <<>>
    /\ stats = NoStats
    /\ fileLineMap = <<>>
    /\ outFile = NoFile
    /\ prev = NoPrev

\* parseGitignore: the rules of <folderPath>/.gitignore, none when the file
\* cannot be read
ParseGitignore(t) ==
    LET f == NodeAt(t, <<<<".", "g", "i", "t", "i", "g", "n", "o", "r", "e">>>>)
    IN  IF f.kind = "file" THEN IgnoreAdd(f.content) ELSE <<>>

\* CollectFilesCall as it would be with the depth bound off by one
CollectFilesCallOffByOne(c, depth) ==
    IF depth > c.maxDepth + 1
    THEN [kind |-> "dir", st |-> "done", depth |-> depth, kids |-> <<>>, val |-> <<>>]
    ELSE [kind |-> "dir", st |-> "readdir", depth |-> depth, kids |-> <<>>, val |-> <<>>]

\* a collectFiles call up to its first await: over the depth bound it
\* returns [] at once, otherwise it waits for fs.readdir
CollectFilesCall(c, depth) ==
    IF depth > c.maxDepth
    THEN [kind |-> "dir", st |-> "done", depth |-> depth, kids |-> <<>>, val |-> <<>>]
    ELSE [kind |-> "dir", st |-> "readdir", depth |-> depth, kids |-> <<>>, val |-> <<>>]

\* a file task up to its first await, fs.stat
FileTask(depth) ==
    [kind |-> "file", st |-> "stat", depth |-> depth, kids |-> <<>>, val |-> <<>>]

\* sourceSnap up to collectFiles waiting for the root listing
SourceSnapStart ==
    /\ pc = "init"
    /\ ig' = ParseGitignore(tree)
    /\ tasks' = (<<>> :> CollectFilesCall(cfg, 0))
    /\ pc' = "collect"
    /\ UNCHANGED <<tree, cfgs, run, listed, result, stats, fileLineMap, outFile, prev>>

\* ReaddirDone as it would be if a failed listing were caught and taken as
\* an empty directory
ReaddirDoneSwallow(p) ==
    /\ pc = "collect"
    /\ p \in DOMAIN tasks
    /\ tasks[p].st = "readdir"
    /\ LET node == NodeAt(tree, p)
           Class(n) == EntryClass(cfg, ig, tree, p, n)
           Keep(n) == Class(n) \in {"dir", "file"}
           names == IF FaultOf(node) = "readdir" THEN <<>>
                    ELSE SelectSeq(node.entries, Keep)
           kids == [i \in DOMAIN names |-> Append(p, names[i])]
           kidSet == {kids[i] : i \in DOMAIN kids}
           Started(q) ==
               IF Class(Last(q)) = "dir"
               THEN CollectFilesCall(cfg, tasks[p].depth + 1)
               ELSE FileTask(tasks[p].depth)
       IN  /\ tasks' = [q \in DOMAIN tasks \cup kidSet |->
                           IF q \in kidSet THEN Started(q)
                           ELSE IF q = p
                                THEN [tasks[p] EXCEPT !.st = "await", !.kids = kids]
                                ELSE tasks[q]]
           /\ listed' = IF node.kind = "dir" THEN listed \cup {p} ELSE listed
    /\ UNCHANGED <<tree, cfgs, run, pc, ig, result, stats, fileLineMap, outFile, prev>>

\* fs.readdir of p answers: the loop over the entries runs, starting one
\* call per directory and one task per file that passed the checks; a path
\* that is no directory, or a failing listing, rejects the call
ReaddirDone(p) ==
    /\ pc = "collect"
    /\ p \in DOMAIN tasks
    /\ tasks[p].st = "readdir"
    /\ LET node == NodeAt(tree, p)
           Class(n) == EntryClass(cfg, ig, tree, p, n)
           Keep(n) == Class(n) \in {"dir", "file"}
           names == SelectSeq(node.entries, Keep)
           kids == [i \in DOMAIN names |-> Append(p, names[i])]
           kidSet == {kids[i] : i \in DOMAIN kids}
           Started(q) ==
               IF Class(Last(q)) = "dir"
               THEN CollectFilesCall(cfg, tasks[p].depth + 1)
               ELSE FileTask(tasks[p].depth)
       IN  IF node.kind # "dir" \/ FaultOf(node) = "readdir"
           THEN /\ tasks' = [tasks EXCEPT ![p].st = "rejected"]
                /\ UNCHANGED listed
           ELSE /\ tasks' = [q \in DOMAIN tasks \cup kidSet |->
                               IF q \in kidSet THEN Started(q)
                               ELSE IF q = p
                                    THEN [tasks[p] EXCEPT !.st = "await", !.kids = kids]
                                    ELSE tasks[q]]
                /\ listed' = listed \cup {p}
    /\ UNCHANGED <<tree, cfgs, run, pc, ig, result, stats, fileLineMap, outFile, prev>>

\* fs.stat of file p answers: a failure rejects the task; a file over the
\* size ceiling is skipped, the task returns []; otherwise the task waits
\* for fs.readFile
StatDone(p) ==
    /\ pc = "collect"
    /\ p \in DOMAIN tasks
    /\ tasks[p].st = "stat"
    /\ tasks' = [tasks EXCEPT ![p].st =
                    IF FaultOf(NodeAt(tree, p)) = "stat" THEN "rejected"
                    ELSE IF TooLarge(cfg, NodeAt(tree, p).size) THEN "done"
                    ELSE "read"]
    /\ UNCHANGED <<tree, cfgs, run, pc, ig, listed, result, stats, fileLineMap,
                   outFile, prev>>

\* ReadDone as it would be if a failed read were caught and the file skipped
ReadDoneSkip(p) ==
    /\ pc = "collect"
    /\ p \in DOMAIN tasks
    /\ tasks[p].st = "read"
    /\ tasks' = [tasks EXCEPT
                    ![p].st = "done",
                    ![p].val = IF FaultOf(NodeAt(tree, p)) = "read" THEN <<>>
                               ELSE <<[path |-> p, content |-> NodeAt(tree, p).content]>>]
    /\ UNCHANGED <<tree, cfgs, run, pc, ig, listed, result, stats, fileLineMap,
                   outFile, prev>>

\* fs.readFile of file p answers: a failure rejects the task, otherwise the
\* task returns the one collected file
ReadDone(p) ==
    /\ pc = "collect"
    /\ p \in DOMAIN tasks
    /\ tasks[p].st = "read"
    /\ tasks' = IF FaultOf(NodeAt(tree, p)) = "read"
                THEN [tasks EXCEPT ![p].st = "rejected"]
                ELSE [tasks EXCEPT
                         ![p].st = "done",
                         ![p].val = <<[path |-> p, content |-> NodeAt(tree, p).content]>>]
    /\ UNCHANGED <<tree, cfgs, run, pc, ig, listed, result, stats, fileLineMap,
                   outFile, prev>>

\* PromiseAll as it would be if the call did not wait for every promise:
\* it returns what has been fulfilled so far
PromiseAllEarly(p) ==
    /\ pc = "collect"
    /\ p \in DOMAIN tasks
    /\ tasks[p].st = "await"
    /\ LET kids == tasks[p].kids
       IN  \/ /\ \E i \in DOMAIN kids : tasks[kids[i]].st = "rejected"
              /\ tasks' = [tasks EXCEPT ![p].st = "rejected"]
           \/ /\ \A i \in DOMAIN kids : tasks[kids[i]].st # "rejected"
              /\ tasks' = [tasks EXCEPT
                              ![p].st = "done",
                              ![p].val = Flat([i \in DOMAIN kids |->
                                  IF tasks[kids[i]].st = "done"
                                  THEN tasks[kids[i]].val ELSE <<>>])]
    /\ UNCHANGED <<tree, cfgs, run, pc, ig, listed, result, stats, fileLineMap,
                   outFile, prev>>

\* PromiseAll as it would be if the files of a directory were put before
\* the files of its subdirectories
PromiseAllFilesFirst(p) ==
    /\ pc = "collect"
    /\ p \in DOMAIN tasks
    /\ tasks[p].st = "await"
    /\ LET kids == tasks[p].kids
           IsFileTask(q) == tasks[q].kind = "file"
           IsDirCall(q) == tasks[q].kind = "dir"
           ordered == SelectSeq(kids, IsFileTask) \o SelectSeq(kids, IsDirCall)
       IN  \/ /\ \E i \in DOMAIN kids : tasks[kids[i]].st = "rejected"
              /\ tasks' = [tasks EXCEPT ![p].st = "rejected"]
           \/ /\ \A i \in DOMAIN kids : tasks[kids[i]].st = "done"
              /\ tasks' = [tasks EXCEPT
                              ![p].st = "done",
                              ![p].val = Flat([i \in DOMAIN ordered |-> tasks[ordered[i]].val])]
    /\ UNCHANGED <<tree, cfgs, run, pc, ig, listed, result, stats, fileLineMap,
                   outFile, prev>>

\* PromiseAll as it would be if it were fulfilled by the last promise to be
\* fulfilled, so that without promises it stays pending
PromiseAllNeedsOne(p) ==
    /\ pc = "collect"
    /\ p \in DOMAIN tasks
    /\ tasks[p].st = "await"
    /\ LET kids == tasks[p].kids
       IN  \/ /\ \E i \in DOMAIN kids : tasks[kids[i]].st = "rejected"
              /\ tasks' = [tasks EXCEPT ![p].st = "rejected"]
           \/ /\ kids # <<>>
              /\ \A i \in DOMAIN kids : tasks[kids[i]].st = "done"
              /\ tasks' = [tasks EXCEPT
                              ![p].st = "done",
                              ![p].val = Flat([i \in DOMAIN kids |-> tasks[kids[i]].val])]
    /\ UNCHANGED <<tree, cfgs, run, pc, ig, listed, result, stats, fileLineMap,
                   outFile, prev>>

\* Promise.all of call p settles: rejected as soon as one promise is,
\* fulfilled when all are, with the values in the order of the promises
PromiseAll(p) ==
    /\ pc = "collect"
    /\ p \in DOMAIN tasks
    /\ tasks[p].st = "await"
    /\ LET kids == tasks[p].kids
       IN  \/ /\ \E i \in DOMAIN kids : tasks[kids[i]].st = "rejected"
              /\ tasks' = [tasks EXCEPT ![p].st = "rejected"]
           \/ /\ \A i \in DOMAIN kids : tasks[kids[i]].st = "done"
              /\ tasks' = [tasks EXCEPT
                              ![p].st = "done",
                              ![p].val = Flat([i \in DOMAIN kids |-> tasks[kids[i]].val])]
    /\ UNCHANGED <<tree, cfgs, run, pc, ig, listed, result, stats, fileLineMap,
                   outFile, prev>>

\* collectFiles returned: sourceSnap aggregates the statistics and calls
\* writeOutput, which builds the text and waits for fs.writeFile
CollectReturned ==
    /\ pc = "collect"
    /\ tasks[<<>>].st = "done"
    /\ result' = tasks[<<>>].val
    /\ stats' = Aggregate(tasks[<<>>].val)
    /\ pc' = "write"
    /\ UNCHANGED <<tree, cfgs, run, ig, tasks, listed, fileLineMap, outFile, prev>>

\* collectFiles rejected: sourceSnap rejects and the entry point's catch
\* reports the error; nothing is aggregated or written
CollectRejected ==
    /\ pc = "collect"
    /\ tasks[<<>>].st = "rejected"
    /\ pc' = "failed"
    /\ UNCHANGED <<tree, cfgs, run, ig, tasks, listed, result, stats, fileLineMap,
                   outFile, prev>>

\* fs.writeFile answers: the output file is on disk and writeOutput returns
\* the link entries
WriteFileDone ==
    /\ pc = "write"
    /\ outFile' = OutputFile(cfg, result)
    /\ fileLineMap' = FileLineMap(cfg, result)
    /\ pc' = "done"
    /\ UNCHANGED <<tree, cfgs, run, ig, tasks, listed, result, stats, prev>>

\* the program is run again on the same tree
SecondRun ==
    /\ run = 1
    /\ pc \in {"done", "failed"}
    /\ prev' = [status |-> pc, result |-> result]
    /\ run' = 2
    /\ pc' = "init"
    /\ ig' = <<>>
    /\ tasks' = NoTasks
    /\ listed' = {}
    /\ result' = <<>>
    /\ stats' = NoStats
    /\ fileLineMap' = <<>>
    /\ outFile' = NoFile
    /\ UNCHANGED <<tree, cfgs>>

\* the paths a task can exist for
TaskPaths == DOMAIN tasks

Next ==
    \/ SourceSnapStart
    \/ \E p \in TaskPaths : ReaddirDone(p)
    \/ \E p \in TaskPaths : StatDone(p)
    \/ \E p \in TaskPaths : ReadDone(p)
    \/ \E p \in TaskPaths : PromiseAll(p)
    \/ CollectReturned
    \/ CollectRejected
    \/ WriteFileDone
    \/ SecondRun

Spec == Init /\ [][Next]_vars

\* a step of the walk: a file system operation answers or a Promise.all
\* settles
WalkStep ==
    \E p \in TaskPaths :
        ReaddirDone(p) \/ StatDone(p) \/ ReadDone(p) \/ PromiseAll(p)

\* every file system operation answers and the event loop runs the
\* continuation of every settled promise: the walk is not left waiting
\* while one of its steps can be taken
FairSpec == Spec /\ WF_vars(WalkStep)

(***************************************************************************)
(* The earlier implementation, src/index.ts: ignore patterns and excluded  *)
(* files are regular expressions made from the pattern text (for patterns  *)
(* over literal characters, ".", "*" and "?"), excluded folders are looked *)
(* for in the full path, there are no include or exclude patterns and no   *)
(* statistics.  fs.stat, fs.readFile, Promise.all and the entry point are  *)
(* as above.                                                               *)
(***************************************************************************)

\* new RegExp('^' + pattern with . escaped, * as .* and ? as . + '$').test(s):
\* the dot of a regular expression matches no line feed
RECURSIVE RegExpTest(_, _)
RegExpTest(pattern, s) ==
    IF pattern = <<>> THEN s = <<>>
    ELSE IF Head(pattern) = "*"
         THEN \/ RegExpTest(Tail(pattern), s)
              \/ (s # <<>> /\ Head(s) # "\n" /\ RegExpTest(pattern, Tail(s)))
         ELSE /\ s # <<>>
              /\ IF Head(pattern) = "?" THEN Head(s) # "\n" ELSE Head(pattern) = Head(s)
              /\ RegExpTest(Tail(pattern), Tail(s))

\* parseGitignore: the trimmed lines that are neither empty nor comments
LegacyParseGitignore(t) ==
    LET f == NodeAt(t, <<<<".", "g", "i", "t", "i", "g", "n", "o", "r", "e">>>>)
        lines == IF f.kind = "file" THEN Split(f.content, "\n") ELSE <<>>
        trimmed == [i \in DOMAIN lines |-> Trim(lines[i])]
        Pattern(line) == line # <<>> /\ Head(line) # "#"
    IN  SelectSeq(trimmed, Pattern)

\* isIgnored(filePath, ignorePatterns)
LegacyIsIgnored(rel, patterns) ==
    \E i \in DOMAIN patterns : RegExpTest(patterns[i], PathString(rel))

\* the loop body of collectFiles on one entry of directory p
LegacyEntryClass(c, patterns, t, p, name) ==
    LET rel == Append(p, name)
        d   == Dirent(t, p, name)
    IN  IF LegacyIsIgnored(rel, patterns) THEN "ignored"
        ELSE IF IsDirectory(d)
             THEN IF \E i \in DOMAIN c.excludeFolders :
                         StringIncludes(FullPath(p, name), c.excludeFolders[i])
                  THEN "excludedFolder" ELSE "dir"
        ELSE IF IsFile(d)
             THEN IF \E i \in DOMAIN c.excludeFiles :
                         RegExpTest(c.excludeFiles[i], PathString(rel))
                  THEN "excludedFile"
                  ELSE IF WrongType(c, name) THEN "wrongType"
                  ELSE "file"
        ELSE "other"

\* the options of the earlier implementation: no include or exclude patterns
LegacyInit ==
    /\ Init
    /\ \A i \in 1..2 : cfgs[i].includePatterns = <<>> /\ cfgs[i].excludePatterns = <<>>

LegacySourceSnapStart ==
    /\ pc = "init"
    /\ ig' = IF cfg.respectGitignore THEN LegacyParseGitignore(tree) ELSE <<>>
    /\ tasks' = (<<>> :> CollectFilesCall(cfg, 0))
    /\ pc' = "collect"
    /\ UNCHANGED <<tree, cfgs, run, listed, result, stats, fileLineMap, outFile, prev>>

LegacyReaddirDone(p) ==
    /\ pc = "collect"
    /\ p \in DOMAIN tasks
    /\ tasks[p].st = "readdir"
    /\ LET node == NodeAt(tree, p)
           Class(n) == LegacyEntryClass(cfg, ig, tree, p, n)
           Keep(n) == Class(n) \in {"dir", "file"}
           names == SelectSeq(node.entries, Keep)
           kids == [i \in DOMAIN names |-> Append(p, names[i])]
           kidSet == {kids[i] : i \in DOMAIN kids}
           Started(q) ==
               IF Class(Last(q)) = "dir"
               THEN CollectFilesCall(cfg, tasks[p].depth + 1)
               ELSE FileTask(tasks[p].depth)
       IN  IF node.kind # "dir" \/ FaultOf(node) = "readdir"
           THEN /\ tasks' = [tasks EXCEPT ![p].st = "rejected"]
                /\ UNCHANGED listed
           ELSE /\ tasks' = [q \in DOMAIN tasks \cup kidSet |->
                               IF q \in kidSet THEN Started(q)
                               ELSE IF q = p
                                    THEN [tasks[p] EXCEPT !.st = "await", !.kids = kids]
                                    ELSE tasks[q]]
                /\ listed' = listed \cup {p}
    /\ UNCHANGED <<tree, cfgs, run, pc, ig, result, stats, fileLineMap, outFile, prev>>

\* collectFiles returned: sourceSnap calls writeOutput
LegacyCollectReturned ==
    /\ pc = "collect"
    /\ tasks[<<>>].st = "done"
    /\ result' = tasks[<<>>].val
    /\ pc' = "write"
    /\ UNCHANGED <<tree, cfgs, run, ig, tasks, listed, stats, fileLineMap, outFile, prev>>

\* fs.writeFile answers; the link entries are built for either format
LegacyWriteFileDone ==
    /\ pc = "write"
    /\ outFile' = OutputFile(cfg, result)
    /\ fileLineMap' = FileLineMapFrom(<<>>, <<>>, result)
    /\ pc' = "done"
    /\ UNCHANGED <<tree, cfgs, run, ig, tasks, listed, result, stats, prev>>

LegacyNext ==
    \/ LegacySourceSnapStart
    \/ \E p \in TaskPaths : LegacyReaddirDone(p)
    \/ \E p \in TaskPaths : StatDone(p)
    \/ \E p \in TaskPaths : ReadDone(p)
    \/ \E p \in TaskPaths : PromiseAll(p)
    \/ LegacyCollectReturned
    \/ CollectRejected
    \/ LegacyWriteFileDone
    \/ SecondRun

SpecLegacy == LegacyInit /\ [][LegacyNext]_vars

(***************************************************************************)
(* Properties                                                              *)
(***************************************************************************)

\* collectFiles has returned to sourceSnap in the run in progress
Returned == pc \in {"write", "done"}

\* the files some call or task of the walk has returned so far, and the
\* files of the final result
ReturnedFiles ==
    UNION {{tasks[p].val[i] : i \in DOMAIN tasks[p].val} : p \in DOMAIN tasks}
        \cup {result[i] : i \in DOMAIN result}

PathsOf(files) == {files[i].path : i \in DOMAIN files}

\* path q, taken as an entry of its parent directory, is a symbolic link
IsLinkEntry(q) ==
    LET r == Append(Resolve(tree, Front(q)), Last(q))
    IN  r \in DOMAIN tree /\ tree[r].kind = "symlink"

\* path p is a symbolic link or lies behind one
ThroughLink(p) == \E i \in 1..Len(p) : IsLinkEntry(SubSeq(p, 1, i))

\* the number of line feeds in a text
LineFeeds(content) == Cardinality({j \in DOMAIN content : content[j] = "\n"})

\* size in bytes over the ceiling of c, in exact arithmetic
OverCeiling(c, size) == size * c.maxSizeMB.den > c.maxSizeMB.num * 1048576

\* C1: every file a call returns, and every entry of the final result, is a
\* regular file of the tree (no directory, no symbolic link) that passed
\* every active filter: ignore rules, excluded folders, excluded files,
\* include and exclude patterns, extension allowlist, size ceiling.
C1_PassedAllFilters ==
    \A f \in ReturnedFiles :
        LET rel == f.path
            rules == IgnoreAdd(NodeAt(tree, <<<<".","g","i","t","i","g","n","o","r","e">>>>).content)
        IN  /\ rel \in DOMAIN tree
            /\ tree[rel].kind = "file"
            /\ cfg.respectGitignore => ~Ignores(rules, rel)
            /\ \A i \in 1..(Len(rel) - 1) : ~Includes(cfg.excludeFolders, rel[i])
            /\ \A i \in DOMAIN cfg.excludeFiles : ~Minimatch(rel, cfg.excludeFiles[i])
            /\ cfg.includePatterns # <<>> =>
                  \E i \in DOMAIN cfg.includePatterns : Minimatch(rel, cfg.includePatterns[i])
            /\ \A i \in DOMAIN cfg.excludePatterns : ~Minimatch(rel, cfg.excludePatterns[i])
            /\ cfg.fileTypes # <<>> =>
                  Includes(cfg.fileTypes, ToLowerCase(ExtName(Last(rel))))
            /\ ~OverCeiling(cfg, tree[rel].size)

\* C1 witness: a finished run with include and exclude patterns set that
\* collected some files and left others out
C1_Witness ==
    /\ pc = "done"
    /\ cfg.includePatterns # <<>>
    /\ cfg.excludePatterns # <<>>
    /\ result # <<>>
    /\ \E p \in FilesOf(tree) : p \notin PathsOf(result)

\* C2: no returned file lies more than maxDepth directories below the root
\* (with maxDepth = 0 only files directly in the root), and a call for a
\* directory deeper than maxDepth returns no entries, lists nothing and
\* does not reject.
C2_DepthBound ==
    /\ \A f \in ReturnedFiles : Len(f.path) - 1 <= cfg.maxDepth
    /\ \A p \in DOMAIN tasks :
          (tasks[p].kind = "dir" /\ Len(p) > cfg.maxDepth) =>
              /\ tasks[p].st = "done"
              /\ tasks[p].val = <<>>
              /\ p \notin listed

\* C2 witness: a finished run with maxDepth = 0 that collected a file of the
\* root and cut a subdirectory holding files
C2_Witness ==
    /\ pc = "done"
    /\ cfg.maxDepth = 0
    /\ result # <<>>
    /\ \E p \in DOMAIN tasks :
          /\ tasks[p].kind = "dir"
          /\ Len(p) = 1
          /\ \E q \in FilesOf(tree) : Len(q) = 2 /\ q[1] = p[1]

\* C3: nothing is started for, listed in or returned from a directory whose
\* name is an entry of excludeFolders, whatever the other options are.
C3_ExcludedFolderAbsent ==
    /\ \A f \in ReturnedFiles :
          \A i \in 1..(Len(f.path) - 1) : ~Includes(cfg.excludeFolders, f.path[i])
    /\ \A p \in DOMAIN tasks :
          \A i \in 1..(Len(p) - 1) : ~Includes(cfg.excludeFolders, p[i])
    /\ \A p \in listed :
          \A i \in 1..Len(p) : ~Includes(cfg.excludeFolders, p[i])

\* C3 witness: a finished run without extension allowlist and without
\* ignore rules on a tree with a file under an excluded folder
C3_Witness ==
    /\ pc = "done"
    /\ cfg.fileTypes = <<>>
    /\ ~cfg.respectGitignore
    /\ result # <<>>
    /\ \E p \in FilesOf(tree) :
          \E i \in 1..(Len(p) - 1) : Includes(cfg.excludeFolders, p[i])

\* C4: no call or task is started for a symbolic link or for a path behind
\* one, no such path is listed and no such path is in a returned list.
C4_SymlinksSkipped ==
    /\ \A p \in DOMAIN tasks : ~ThroughLink(p)
    /\ \A p \in listed : ~ThroughLink(p)
    /\ \A f \in ReturnedFiles : ~ThroughLink(f.path)

\* C4 witness: a finished run with respectGitignore off and every extension
\* allowed on a tree with links to a directory and to a file
C4_Witness ==
    /\ pc = "done"
    /\ ~cfg.respectGitignore
    /\ cfg.fileTypes = <<>>
    /\ result # <<>>
    /\ \E p \in DOMAIN tree : tree[p].kind = "symlink" /\ NodeAt(tree, p).kind = "dir"
    /\ \E p \in DOMAIN tree : tree[p].kind = "symlink" /\ NodeAt(tree, p).kind = "file"

\* the rules of the root's ignore file, by the rules of the ignore package
RootRules ==
    IgnoreAdd(NodeAt(tree, <<<<".","g","i","t","i","g","n","o","r","e">>>>).content)

\* directory q of the tree is matched by an ignore pattern, taken as a
\* directory
IgnoredDir(q) ==
    /\ q \in DOMAIN tree
    /\ q # <<>>
    /\ tree[q].kind = "dir"
    /\ TestPath(RootRules, q, TRUE)

\* p is directory q or lies under it
Under(p, q) == Len(p) >= Len(q) /\ SubSeq(p, 1, Len(q)) = q

\* the ignore-file scenario: the ignore file holds dist/, and no other
\* option stands in the way of dist/out.ts and src/in.ts
DistScenario ==
    /\ tree = TreeDist(<<"d","i","s","t","/">>)
    /\ cfg = [defaultOptions EXCEPT !.excludeFolders = <<>>]

\* C5: with respectGitignore on, a directory matched by an ignore pattern is
\* short-circuited: it is not listed, nothing is started or returned for a
\* path under it; in the scenario the result is exactly [src/in.ts].
C5_IgnoredDirShortCircuited ==
    cfg.respectGitignore =>
        /\ \A q \in DOMAIN tree : IgnoredDir(q) =>
              /\ \A p \in listed : ~Under(p, q)
              /\ \A p \in DOMAIN tasks : ~Under(p, q)
              /\ \A f \in ReturnedFiles : ~Under(f.path, q)
        /\ (DistScenario /\ pc = "done") =>
              [i \in DOMAIN result |-> result[i].path] = <<<<<<"s","r","c">>, <<"i","n",".","t","s">>>>>>

\* C5, the part about the result alone: no file under an ignored directory
\* is returned, a file no rule matches is not kept out by the ignore check,
\* and the scenario yields exactly [src/in.ts].
C5_IgnoredFilesAbsent ==
    cfg.respectGitignore =>
        /\ \A q \in DOMAIN tree : IgnoredDir(q) =>
              \A f \in ReturnedFiles : ~Under(f.path, q)
        /\ (DistScenario /\ pc = "done") =>
              [i \in DOMAIN result |-> result[i].path] = <<<<<<"s","r","c">>, <<"i","n",".","t","s">>>>>>

\* the second run has the options of the first with the allowlist emptied
AllowAllPair ==
    /\ cfgs[1].fileTypes # <<>>
    /\ cfgs[2] = [cfgs[1] EXCEPT !.fileTypes = <<>>]

SecondRunOver == run = 2 /\ pc \in {"done", "failed"}

\* C6 as stated: with fileTypes the list of the extensions present in the
\* tree, as they are spelled, the run returns what the allow-all run returns.
C6_RoundTripAsSpelled ==
    (SecondRunOver /\ AllowAllPair /\ cfgs[1].fileTypes = RawExts(tree)) =>
        /\ prev.status = pc
        /\ prev.result = result

\* C6 amended: with fileTypes the list of the lower-cased extensions present
\* in the tree (the empty string for files without extension), the run
\* returns what the allow-all run returns.
C6_RoundTripLowerCased ==
    (SecondRunOver /\ AllowAllPair /\ cfgs[1].fileTypes = LowerExts(tree)) =>
        /\ prev.status = pc
        /\ prev.result = result

\* C6 witness: both runs are over, the allowlist was the lower-cased
\* extensions, and the result holds a file with an upper-case extension and
\* a file without extension
C6_Witness ==
    /\ run = 2
    /\ pc = "done"
    /\ AllowAllPair
    /\ cfgs[1].fileTypes = LowerExts(tree)
    /\ \E i \in DOMAIN result :
          ExtName(Last(result[i].path)) # ToLowerCase(ExtName(Last(result[i].path)))
    /\ \E i \in DOMAIN result : ExtName(Last(result[i].path)) = <<>>

\* C7: a second run with the same options on the unmodified tree ends as
\* the first did and returns the same set of files (paths and contents),
\* whatever the order in which calls and tasks completed in either run.
C7_Idempotent ==
    (SecondRunOver /\ cfgs[2] = cfgs[1]) =>
        /\ prev.status = pc
        /\ {prev.result[i] : i \in DOMAIN prev.result} = {result[i] : i \in DOMAIN result}

\* C7 witness: two finished runs with the same options that collected files
\* from several concurrently walked directories
C7_Witness ==
    /\ run = 2
    /\ pc = "done"
    /\ cfgs[2] = cfgs[1]
    /\ Len(result) >= 3
    /\ \E i, j \in DOMAIN result : Len(result[i].path) # Len(result[j].path)

RECURSIVE SumOver(_, _, _)
\* the sum of f[k].lines (what = "lines") or f[k].files over the keys in set
SumOver(f, set, what) ==
    IF set = {} THEN 0
    ELSE LET k == CHOOSE x \in set : TRUE
         IN  (IF what = "lines" THEN f[k].lines ELSE f[k].files)
                 + SumOver(f, set \ {k}, what)

RECURSIVE SumLines(_, _)
\* the sum over the files at the positions in set of their segment counts
SumLines(files, set) ==
    IF set = {} THEN 0
    ELSE LET k == CHOOSE x \in set : TRUE
         IN  (LineFeeds(files[k].content) + 1) + SumLines(files, set \ {k})

\* the bucket of a collected file: its lower-cased extension
Bucket(f) == ToLowerCase(ExtName(Last(f.path)))

\* C8: once sourceSnap has aggregated, totalFiles is the length of the
\* list, totalLines is the sum of the per-extension line counts, the
\* per-extension file counts sum to totalFiles, and each bucket (keyed by
\* lower-cased extension, "" without extension) counts its files and the
\* segments of their contents split on the line feed.
C8_Statistics ==
    Returned =>
        LET fts == stats.fileTypeStats
        IN  /\ stats.totalFiles = Len(result)
            /\ stats.totalLines = SumOver(fts, DOMAIN fts, "lines")
            /\ stats.totalFiles = SumOver(fts, DOMAIN fts, "files")
            /\ DOMAIN fts = {Bucket(result[i]) : i \in DOMAIN result}
            /\ \A e \in DOMAIN fts :
                  LET mine == {i \in DOMAIN result : Bucket(result[i]) = e}
                  IN  /\ fts[e].files = Cardinality(mine)
                      /\ fts[e].lines = SumLines(result, mine)

\* C8 witness: statistics over a result with two extensions, an upper-case
\* extension and a content ending in a line feed
C8_Witness ==
    /\ pc = "done"
    /\ Cardinality(DOMAIN stats.fileTypeStats) >= 2
    /\ \E i \in DOMAIN result :
          ExtName(Last(result[i].path)) # Bucket(result[i])
    /\ \E i \in DOMAIN result :
          result[i].content # <<>> /\ Last(result[i].content) = "\n"

\* C9: a file task (a file that passed the earlier checks) returns nothing
\* exactly when size / (1024 * 1024) > maxSizeMB; it rejects only when
\* fs.stat or fs.readFile fails, and at the end of the run every file task
\* under the ceiling is in the result.
C9_SizeCeiling ==
    /\ \A p \in DOMAIN tasks : tasks[p].kind = "file" =>
          /\ tasks[p].st = "rejected" => FaultOf(tree[p]) # "none"
          /\ tasks[p].st = "read" => ~OverCeiling(cfg, tree[p].size)
          /\ tasks[p].st = "done" =>
                (tasks[p].val = <<>> <=> OverCeiling(cfg, tree[p].size))
    /\ pc = "done" =>
          \A p \in DOMAIN tasks :
              (tasks[p].kind = "file" /\ ~OverCeiling(cfg, tree[p].size)) =>
                  p \in PathsOf(result)

\* C9 witness: maxSizeMB = 0.001, a file of 2000 bytes was skipped and
\* another file was collected
C9_Witness ==
    /\ pc = "done"
    /\ cfg.maxSizeMB = MB(1, 1000)
    /\ result # <<>>
    /\ \E p \in DOMAIN tasks :
          tasks[p].kind = "file" /\ tree[p].size = 2000 /\ tasks[p].val = <<>>

\* C10: when options.folderPath is missing or no directory, the run never
\* gets past collectFiles: the root call rejects, sourceSnap fails, no list
\* is returned, nothing is aggregated and no output file is written.
C10_RootFailure ==
    NodeAt(tree, <<>>).kind # "dir" =>
        /\ pc \in {"init", "collect", "failed"}
        /\ <<>> \in DOMAIN tasks => tasks[<<>>].st \in {"readdir", "rejected"}
        /\ result = <<>>
        /\ stats = NoStats
        /\ fileLineMap = <<>>
        /\ ~outFile.written

\* C10 witness: the run failed on a missing root
C10_Witness ==
    /\ pc = "failed"
    /\ NodeAt(tree, <<>>).kind = "missing"

\* the first run had the includePatterns of an empty answer at the prompt,
\* the second run has the empty list
EmptyAnswerPair ==
    /\ cfgs[1].includePatterns = AnswerList(<<>>)
    /\ cfgs[2] = [cfgs[1] EXCEPT !.includePatterns = <<>>]

\* C11: with the includePatterns an empty answer at the prompt gives, the
\* include check rejects no file: the run ends as, and collects what, the
\* run without include check (includePatterns = []) does.
C11_EmptyAnswerAllowsAll ==
    (SecondRunOver /\ EmptyAnswerPair) =>
        /\ prev.status = pc
        /\ prev.result = result

\* the lines of the output file on disk
WrittenLines == Split(outFile.text, "\n")

\* entry i of fileLineMap points at the header of result[i], the content
\* lines follow it, then one blank line, then the next header if any
LinkEntryRight(i) ==
    LET h == fileLineMap[i].line
        c == result[i].content
        n == LineFeeds(c) + 1
    IN  /\ fileLineMap[i].path = result[i].path
        /\ h >= 1
        /\ h + n + 1 <= Len(WrittenLines)
        /\ WrittenLines[h] = <<"/", "/", " ">> \o PathString(result[i].path)
        /\ JoinWith([k \in 1..n |-> WrittenLines[h + k]], <<"\n">>) = c
        /\ WrittenLines[h + n + 1] = <<>>
        /\ IF i = 1 THEN h = 1
           ELSE h = fileLineMap[i - 1].line + LineFeeds(result[i - 1].content) + 3

\* C12: after a text output, fileLineMap has one entry per collected file,
\* in collection order, and each entry's line is the 1-based line of the
\* written file holding the header "// <path>", with the content lines
\* directly after it and one blank line before the next header.
C12_LinkLines ==
    (pc = "done" /\ cfg.outputFormat = "txt") =>
        /\ Len(fileLineMap) = Len(result)
        /\ \A i \in DOMAIN result : LinkEntryRight(i)

\* C12, for results in which no path holds a line feed
C12_LinkLinesPlainPaths ==
    (/\ pc = "done"
     /\ cfg.outputFormat = "txt"
     /\ \A i \in DOMAIN result : LineFeeds(PathString(result[i].path)) = 0) =>
        /\ Len(fileLineMap) = Len(result)
        /\ \A i \in DOMAIN result : LinkEntryRight(i)

\* a text output of several files, one with a content ending in a line feed
C12_PlainPathsReached ==
    /\ pc = "done"
    /\ cfg.outputFormat = "txt"
    /\ Len(result) >= 3
    /\ \A i \in DOMAIN result : LineFeeds(PathString(result[i].path)) = 0

\* path q is matched by the root's ignore file, as the ignore package or as
\* the regular expressions of src/index.ts take it
IgnoredByEither(q) ==
    \/ Ignores(RootRules, q)
    \/ LegacyIsIgnored(q, LegacyParseGitignore(tree))

\* C13: folder exclusion matches the directory's own name exactly: every
\* directory entry of a listed directory that is not ignored and whose name
\* is no entry of excludeFolders gets its collectFiles call, also when its
\* name or the path of the root contains an entry.
C13_ExactNameMatch ==
    \A p \in listed :
        \A i \in DOMAIN NodeAt(tree, p).entries :
            LET n == NodeAt(tree, p).entries[i]
                q == Append(p, n)
            IN  (/\ q \in DOMAIN tree
                 /\ tree[q].kind = "dir"
                 /\ ~(cfg.respectGitignore /\ IgnoredByEither(q))
                 /\ \A k \in DOMAIN cfg.excludeFolders : cfg.excludeFolders[k] # n)
                    => (q \in DOMAIN tasks /\ tasks[q].kind = "dir")

\* C13 witness: dist is excluded and the root lies under a folder dist; the
\* folder distribution was listed and its file collected
C13_Witness ==
    /\ pc = "done"
    /\ Includes(cfg.excludeFolders, <<"d","i","s","t">>)
    /\ \E i \in DOMAIN FolderPath : FolderPath[i] = <<"d","i","s","t">>
    /\ <<<<"d","i","s","t","r","i","b","u","t","i","o","n">>>> \in listed
    /\ \E i \in DOMAIN result :
          result[i].path[1] = <<"d","i","s","t","r","i","b","u","t","i","o","n">>

\* the operation of task p that fails on its node has been reached and has
\* answered: the listing of a directory within the depth bound, fs.stat of
\* a file, or fs.readFile of a file under the size ceiling
HasFailed(p) ==
    LET op == FaultOf(tree[p])
    IN  \/ /\ op = "readdir"
           /\ tasks[p].depth <= cfg.maxDepth
           /\ tasks[p].st # "readdir"
        \/ /\ op = "stat"
           /\ tasks[p].st # "stat"
        \/ /\ op = "read"
           /\ ~OverCeiling(cfg, tree[p].size)
           /\ tasks[p].st \notin {"stat", "read"}

\* C14: once the listing, fs.stat or fs.readFile of one entry has failed,
\* its task is rejected, the root call never returns a list, nothing is
\* aggregated and writeOutput is not run: the run is still collecting or
\* has failed at the entry point, also when other branches have completed.
C14_FailurePropagates ==
    \A p \in DOMAIN tasks : HasFailed(p) =>
        /\ tasks[p].st = "rejected"
        /\ tasks[<<>>].st # "done"
        /\ pc \in {"collect", "failed"}
        /\ result = <<>>
        /\ stats = NoStats
        /\ fileLineMap = <<>>
        /\ ~outFile.written

\* C14 witness: fs.readFile of one file failed, another file's task had
\* returned its file, and the run failed
C14_Witness ==
    /\ pc = "failed"
    /\ \E p \in DOMAIN tasks : FaultOf(tree[p]) = "read" /\ HasFailed(p)
    /\ \E q \in DOMAIN tasks : tasks[q].st = "done" /\ tasks[q].val # <<>>

\* the root call has settled, and when it returned a list every call and
\* task started has finished
AllFinished ==
    /\ <<>> \in DOMAIN tasks
    /\ tasks[<<>>].st \in {"done", "rejected"}
    /\ tasks[<<>>].st = "done" => \A p \in DOMAIN tasks : tasks[p].st = "done"

\* C15: every collectFiles walk ends: the root call settles, with every
\* started call and task finished when it returns a list, on every tree,
\* also with a symbolic link back to the root and maxDepth = Infinity.
C15_Terminates == (pc = "collect") ~> AllFinished

\* C15 witness: a walk with maxDepth = Infinity of the tree with a link
\* from sub/up back to the root has returned, sub having been listed
C15_Witness ==
    /\ AllFinished
    /\ tasks[<<>>].st = "done"
    /\ cfg.maxDepth = Infinity
    /\ tree = TreeLinks
    /\ NodeAt(tree, <<<<"s","u","b">>, <<"u","p">>>>) = tree[<<>>]
    /\ <<<<"s","u","b">>>> \in listed

\* file p of the tree is within the depth bound, has no excluded or ignored
\* directory above it and passes every active filter
Admitted(p) ==
    /\ Len(p) - 1 <= cfg.maxDepth
    /\ \A i \in 1..(Len(p) - 1) :
          /\ \A k \in DOMAIN cfg.excludeFolders : cfg.excludeFolders[k] # p[i]
          /\ cfg.respectGitignore => ~Ignores(RootRules, SubSeq(p, 1, i))
    /\ cfg.respectGitignore => ~Ignores(RootRules, p)
    /\ \A k \in DOMAIN cfg.excludeFiles : ~Minimatch(p, cfg.excludeFiles[k])
    /\ cfg.includePatterns # <<>> =>
          \E k \in DOMAIN cfg.includePatterns : Minimatch(p, cfg.includePatterns[k])
    /\ \A k \in DOMAIN cfg.excludePatterns : ~Minimatch(p, cfg.excludePatterns[k])
    /\ cfg.fileTypes # <<>> =>
          \E k \in DOMAIN cfg.fileTypes :
              cfg.fileTypes[k] = ToLowerCase(ExtName(Last(p)))
    /\ ~OverCeiling(cfg, tree[p].size)

\* the position of an entry in the listing of directory d
ListedAt(d, name) ==
    CHOOSE i \in DOMAIN tree[d].entries : tree[d].entries[i] = name

\* the walk in listing order comes to a before b: where the two paths part,
\* the entry towards a is listed before the entry towards b
EnumBefore(a, b) ==
    \E k \in 1..Len(a) :
        /\ k <= Len(b)
        /\ SubSeq(a, 1, k - 1) = SubSeq(b, 1, k - 1)
        /\ a[k] # b[k]
        /\ ListedAt(SubSeq(a, 1, k - 1), a[k]) < ListedAt(SubSeq(a, 1, k - 1), b[k])

\* C16: what collectFiles returns holds every admitted regular file of the
\* tree, each once and with its content, and nothing else, in the order
\* in which the directories list their entries.
C16_CompleteUniqueOrdered ==
    Returned =>
        /\ PathsOf(result) = {p \in FilesOf(tree) : Admitted(p)}
        /\ \A i, j \in DOMAIN result :
              i < j => /\ result[i].path # result[j].path
                       /\ EnumBefore(result[i].path, result[j].path)
        /\ \A i \in DOMAIN result : result[i].content = tree[result[i].path].content

\* C16 witness: a finished run with the extension allowlist set that
\* collected three files, the file of a subdirectory before a later file of
\* the directory above
C16_Witness ==
    /\ pc = "done"
    /\ cfg.fileTypes # <<>>
    /\ Len(result) >= 3
    /\ \E i, j \in DOMAIN result :
          i < j /\ Len(result[i].path) > Len(result[j].path)

====
